---- MODULE Spec2Model ----
(***************************************************************************)
(* Model of the upload orchestrator of irida-uploader:                    *)
(*   core/cli_entry.py   validate_and_upload_single_entry,                *)
(*                       upload_first_new_run, exit_error, exit_success   *)
(*   parsers/nextseq/parser.py   Parser.get_required_file_list,           *)
(*                       Parser.get_sample_sheet,                         *)
(*                       Parser.get_sequencing_run                        *)
(*                                                                         *)
(* The orchestrator is single threaded and synchronous.  One invocation   *)
(* of an entry point is one action.  The outcome of every call to a       *)
(* collaborator (status store, offline parser, remote API) is an input of *)
(* the invocation, drawn from EnvSet.  The invocation is computed by the  *)
(* operators below, stage by stage, as the code does; a context record    *)
(*   [marker, calls, returned, raised]                                    *)
(* is threaded through the stages:                                        *)
(*   marker    the status marker of the directory (NEW = no marker)       *)
(*   calls     the collaborator calls made so far, with their outcome     *)
(*   returned  <<>> while running, <<code>> once the function returned    *)
(*   raised    "none", or the exception that left the function           *)
(***************************************************************************)
EXTENDS Integers, Sequences, FiniteSets

VARIABLES marker, present, call, result, uploads, invocations, parsed

vars == <<marker, present, call, result, uploads, invocations, parsed>>

----------------------------------------------------------------------------
(* Bounds *)

MaxInvocations == 2

\* samples of a sample sheet
MaxSamples == 2

\* errors validate_sample_sheet reports for one sheet
MaxSheetErrors == 2

----------------------------------------------------------------------------
(* Directories and the status store *)

RunDirectories == <<"run1", "run2">>

Directories == {RunDirectories[i] : i \in DOMAIN RunDirectories}

NoDirectory == "None"

DIRECTORY_STATUS_NEW == "NEW"

DIRECTORY_STATUS_PARTIAL == "PARTIAL"

DIRECTORY_STATUS_COMPLETE == "COMPLETE"

DIRECTORY_STATUS_ERROR == "ERROR"

DIRECTORY_STATUS_INVALID == "INVALID"

SAMPLE_SHEET_FILE_NAME == "SampleSheet.csv"

UPLOAD_COMPLETE_FILE_NAME == "RTAComplete.txt"

get_required_file_list == <<SAMPLE_SHEET_FILE_NAME, UPLOAD_COMPLETE_FILE_NAME>>

RequiredFiles == {get_required_file_list[i] : i \in DOMAIN get_required_file_list}

----------------------------------------------------------------------------
(* Inputs of one invocation: the outcome of each collaborator call *)

EnvSet ==
    [ partial_write  : BOOLEAN,
      access         : BOOLEAN,
      sequencing_run : {"ok", "ValidationError"},
      connect        : BOOLEAN,
      online         : {"valid", "invalid", "IridaConnectionError"},
      upload         : BOOLEAN,
      complete_write : BOOLEAN,
      error_write    : BOOLEAN ]

----------------------------------------------------------------------------
(* Context of a running invocation *)

Call(op, arg, out) == [op |-> op, arg |-> arg, out |-> out]

StartContext(m) ==
    [directory |-> NoDirectory, marker |-> m, calls |-> <<>>, returned |-> <<>>,
     raised |-> "none"]

\* the context on entry to validate_and_upload_single_entry(directory)
Enter(c, directory, m) == [c EXCEPT !.directory = directory, !.marker = m]

Running(c) == c.returned = <<>> /\ c.raised = "none"

Return(c, code) == [c EXCEPT !.returned = <<code>>]

Raise(c, exception) == [c EXCEPT !.raised = exception]

Record(c, op, arg, out) == [c EXCEPT !.calls = Append(@, Call(op, arg, out))]

----------------------------------------------------------------------------
(* Collaborators outside the orchestrator *)

\* upload_status.write_directory_status(directory, status): overwrites the
\* marker, or fails with DirectoryError and leaves the marker as it was.
write_directory_status(c, status, ok) ==
    IF ok
    THEN [Record(c, "write_directory_status", status, "ok") EXCEPT !.marker = status]
    ELSE Record(c, "write_directory_status", status, "DirectoryError")

\* os.path.join(directory, file_name), a path as its sequence of components
os_path_join(directory, file_name) == <<directory, file_name>>

\* common.get_file_list(directory): the names of the files of the directory,
\* or DirectoryError when the directory cannot be listed (the error that
\* get_sequencing_run catches around the same call, lines 147-149).
get_file_list(files, readable) ==
    IF readable
    THEN [raised |-> "none", value |-> files]
    ELSE [raised |-> "DirectoryError", value |-> {}]

\* faulty variant: the access check is left out
get_sample_sheet_no_access_check(directory, listing, access) ==
    IF listing.raised = "DirectoryError"
    THEN [raised |-> "DirectoryError", value |-> <<>>]
    ELSE IF SAMPLE_SHEET_FILE_NAME \notin listing.value
         THEN [raised |-> "DirectoryError", value |-> <<>>]
         ELSE [raised |-> "none",
               value |-> os_path_join(directory, SAMPLE_SHEET_FILE_NAME)]

\* Parser.get_sample_sheet(directory): DirectoryError when
\* os.access(directory, os.W_OK) is false (line 109), then whatever
\* common.get_file_list raises (line 116, not caught), then DirectoryError
\* when the file list holds no SampleSheet.csv, else the path of the sheet.
\* access is the result of os.access(directory, os.W_OK), listing the outcome
\* of common.get_file_list(directory).
get_sample_sheet(directory, listing, access) ==
    IF ~access
    THEN [raised |-> "DirectoryError", value |-> <<>>]
    ELSE IF listing.raised = "DirectoryError"
         THEN [raised |-> "DirectoryError", value |-> <<>>]
         ELSE IF SAMPLE_SHEET_FILE_NAME \notin listing.value
              THEN [raised |-> "DirectoryError", value |-> <<>>]
              ELSE [raised |-> "none",
                    value |-> os_path_join(directory, SAMPLE_SHEET_FILE_NAME)]

\* parsing_handler.parse_and_validate(directory): locate the sheet, then
\* build and validate the sequencing run.  env.access is whether the run
\* directory can be both listed and written.
parse_and_validate(directory, files, env) ==
    IF get_sample_sheet(directory, get_file_list(files, env.access),
                        env.access).raised = "DirectoryError"
    THEN "DirectoryError"
    ELSE env.sequencing_run

\* logging.ERROR is the integer level 40 of the logging module, not the
\* function logging.error: calling it raises TypeError inside the handler.
logging_ERROR(c) == Raise(c, "TypeError")

----------------------------------------------------------------------------
(* core/cli_entry.py *)

exit_success == 0

exit_error(run_directory, env, c) ==
    IF run_directory # NoDirectory
    THEN LET w == write_directory_status(c, DIRECTORY_STATUS_ERROR, env.error_write)
         IN  IF env.error_write
             THEN Return(w, 1)
             ELSE LET l == logging_ERROR(w)
                  IN  IF Running(l) THEN Return(l, 1) ELSE l
    ELSE Return(c, 1)

\* lines 29-36: add the progress file to the directory
stage_partial_status(directory, env, c) ==
    LET w == write_directory_status(c, DIRECTORY_STATUS_PARTIAL, env.partial_write)
    IN  IF env.partial_write
        THEN w
        ELSE LET l == logging_ERROR(w)
             IN  IF Running(l) THEN exit_error(NoDirectory, env, l) ELSE l

\* lines 38-51: parsing and offline validation
stage_parse(directory, files, env, c) ==
    IF ~Running(c) THEN c
    ELSE LET out == parse_and_validate(directory, files, env)
             p   == Record(c, "parse_and_validate", directory, out)
         IN  IF out = "DirectoryError" THEN exit_error(directory, env, p)
             ELSE IF out = "ValidationError" THEN exit_error(directory, env, p)
             ELSE p

\* faulty variant: the connection failure leaves without passing the directory
stage_connect_no_directory(directory, env, c) ==
    IF ~Running(c) THEN c
    ELSE IF env.connect
         THEN Record(c, "initialize_api_from_config", directory, "ok")
         ELSE exit_error(NoDirectory, env,
                  Record(c, "initialize_api_from_config", directory,
                         "IridaConnectionError"))

\* lines 53-62: initialize the api
stage_connect(directory, env, c) ==
    IF ~Running(c) THEN c
    ELSE IF env.connect
         THEN Record(c, "initialize_api_from_config", directory, "ok")
         ELSE exit_error(directory, env,
                  Record(c, "initialize_api_from_config", directory,
                         "IridaConnectionError"))

\* faulty variant: the lost connection leaves without passing the directory
stage_online_validation_no_directory(directory, env, c) ==
    IF ~Running(c) THEN c
    ELSE LET p == Record(c, "prepare_and_validate_for_upload", directory, env.online)
         IN  IF env.online = "IridaConnectionError" THEN exit_error(NoDirectory, env, p)
             ELSE IF env.online = "invalid" THEN exit_error(directory, env, p)
             ELSE p

\* lines 64-78: online validation
stage_online_validation(directory, env, c) ==
    IF ~Running(c) THEN c
    ELSE LET p == Record(c, "prepare_and_validate_for_upload", directory, env.online)
         IN  IF env.online = "IridaConnectionError" THEN exit_error(directory, env, p)
             ELSE IF env.online = "invalid" THEN exit_error(directory, env, p)
             ELSE p

\* faulty variant: the failed upload leaves through exit_error(directory)
stage_upload_exit_error(directory, env, c) ==
    IF ~Running(c) THEN c
    ELSE IF env.upload
         THEN Record(c, "upload_sequencing_run", directory, "ok")
         ELSE exit_error(directory, env,
                  Record(c, "upload_sequencing_run", directory,
                         "IridaConnectionError"))

\* lines 80-88: upload
stage_upload(directory, env, c) ==
    IF ~Running(c) THEN c
    ELSE IF env.upload
         THEN Record(c, "upload_sequencing_run", directory, "ok")
         ELSE Return(Record(c, "upload_sequencing_run", directory,
                            "IridaConnectionError"), 1)

\* faulty variant: the final stage returns without writing the COMPLETE marker
stage_complete_status_no_write(directory, env, c) ==
    IF ~Running(c) THEN c
    ELSE Return(c, exit_success)

\* lines 90-103: set the progress file to complete
stage_complete_status(directory, env, c) ==
    IF ~Running(c) THEN c
    ELSE LET w == write_directory_status(c, DIRECTORY_STATUS_COMPLETE,
                                         env.complete_write)
         IN  IF env.complete_write
             THEN Return(w, exit_success)
             ELSE LET l == logging_ERROR(w)
                  IN  IF Running(l) THEN Return(l, exit_success) ELSE l

\* faulty variant: the upload runs before the online validation
validate_and_upload_upload_first(directory, files, env, c) ==
    stage_complete_status(directory, env,
      stage_online_validation(directory, env,
        stage_upload(directory, env,
          stage_connect(directory, env,
            stage_parse(directory, files, env,
              stage_partial_status(directory, env, c))))))

validate_and_upload_single_entry(directory, files, env, c) ==
    stage_complete_status(directory, env,
      stage_upload(directory, env,
        stage_online_validation(directory, env,
          stage_connect(directory, env,
            stage_parse(directory, files, env,
              stage_partial_status(directory, env, c))))))

\* progress.get_directory_status(directory, required_file_list): INVALID when
\* a required file is missing, else the marker (NEW when there is none).
get_directory_status(directory, required_file_list) ==
    IF \E i \in DOMAIN required_file_list :
           required_file_list[i] \notin present[directory]
    THEN [directory |-> directory, status |-> DIRECTORY_STATUS_INVALID]
    ELSE [directory |-> directory, status |-> marker[directory]]

\* Parser.find_runs(directory): the status of every run directory of the root
find_runs ==
    [i \in DOMAIN RunDirectories |->
        get_directory_status(RunDirectories[i], get_required_file_list)]

\* parsing_handler.get_first_new_run(directory): the first run whose status
\* is NEW, or None
get_first_new_run ==
    LET runs == find_runs
        new  == {i \in DOMAIN runs : runs[i].status = DIRECTORY_STATUS_NEW}
    IN  IF new = {}
        THEN NoDirectory
        ELSE runs[CHOOSE i \in new : \A j \in new : i <= j].directory

\* faulty variant: an empty scan is reported as a failure
upload_first_new_run_none_fails(root_readable, env) ==
    IF ~root_readable
    THEN Raise(Record(StartContext(DIRECTORY_STATUS_NEW), "get_first_new_run",
                      "root", "DirectoryError"), "DirectoryError")
    ELSE LET first_run == get_first_new_run
             c == Record(StartContext(DIRECTORY_STATUS_NEW), "get_first_new_run",
                         "root", first_run)
         IN  IF first_run = NoDirectory
             THEN exit_error(NoDirectory, env, c)
             ELSE validate_and_upload_single_entry(first_run, present[first_run], env,
                      Enter(c, first_run, marker[first_run]))

\* faulty variant: the orchestrator is run on the first directory of the root
\* instead of the run that was found
upload_first_new_run_wrong_directory(root_readable, env) ==
    IF ~root_readable
    THEN Raise(Record(StartContext(DIRECTORY_STATUS_NEW), "get_first_new_run",
                      "root", "DirectoryError"), "DirectoryError")
    ELSE LET first_run == get_first_new_run
             c == Record(StartContext(DIRECTORY_STATUS_NEW), "get_first_new_run",
                         "root", first_run)
         IN  IF first_run = NoDirectory
             THEN Return(c, exit_success)
             ELSE validate_and_upload_single_entry(RunDirectories[1],
                      present[RunDirectories[1]], env,
                      Enter(c, RunDirectories[1], marker[RunDirectories[1]]))

\* lines 106-129
upload_first_new_run(root_readable, env) ==
    IF ~root_readable
    THEN Raise(Record(StartContext(DIRECTORY_STATUS_NEW), "get_first_new_run",
                      "root", "DirectoryError"), "DirectoryError")
    ELSE LET first_run == get_first_new_run
             c == Record(StartContext(DIRECTORY_STATUS_NEW), "get_first_new_run",
                         "root", first_run)
         IN  IF first_run = NoDirectory
             THEN Return(c, exit_success)
             ELSE validate_and_upload_single_entry(first_run, present[first_run], env,
                      Enter(c, first_run, marker[first_run]))

----------------------------------------------------------------------------
(* parsers/nextseq/parser.py: Parser.get_sequencing_run *)

\* An error of a ValidationResult: its kind and the entity it is about.
ParseError(kind, at) == [kind |-> kind, at |-> at]

\* The sample table of a sheet: for each sample, whether its sequence files
\* can be resolved.
SampleTables == UNION {[1..n -> BOOLEAN] : n \in 0..MaxSamples}

\* The arguments of get_sequencing_run and the outcome of each call it makes:
\*   directory_given   run_data_directory is not None
\*   file_list_given   run_data_directory_file_list is not None
\*   listing_ok        common.get_file_list(run_data_directory) succeeds
\*   sheet_errors      the errors validation.validate_sample_sheet reports
\*   metadata_ok       sample_parser.parse_metadata succeeds
\*   samples           the sample table
\*   caught            the sample whose SequenceFileError is the exception
\*                     that reaches get_sequencing_run, 0 when every sample
\*                     resolves
\*   build_ok          common.build_sequencing_run_from_samples succeeds
SequencingRunArgs ==
    { a \in [ directory_given : BOOLEAN,
              file_list_given : BOOLEAN,
              listing_ok      : BOOLEAN,
              sheet_errors    : 0..MaxSheetErrors,
              metadata_ok     : BOOLEAN,
              samples         : SampleTables,
              caught          : 0..MaxSamples,
              build_ok        : BOOLEAN ] :
        IF \A i \in DOMAIN a.samples : a.samples[i]
        THEN a.caught = 0
        ELSE a.caught \in DOMAIN a.samples /\ ~a.samples[a.caught] }

\* The context of a running get_sequencing_run:
\*   stage              the last stage entered
\*   validation_result  the error list of the local variable validation_result
\*   recorded           every error recorded in a ValidationResult so far
\*   raised             "none", or the exception that left the function
\*   returned           whether the function returned its sequencing run
\*   run                the samples of the sequencing run returned
SequencingRunStart ==
    [stage |-> "start", validation_result |-> <<>>, recorded |-> <<>>,
     raised |-> "none", returned |-> FALSE, run |-> <<>>]

Parsing(c) == c.raised = "none" /\ ~c.returned

\* validation_result.add_error(error)
add_error(c, error) ==
    [c EXCEPT !.validation_result = Append(@, error),
              !.recorded = Append(@, error)]

\* validation.validate_sample_sheet(sample_sheet): a ValidationResult with
\* the errors found in the sheet
validate_sample_sheet(n) == [i \in 1..n |-> ParseError("SampleSheetError", i)]

\* sample_parser.parse_sample_list(sample_sheet, run_data_directory, file_list):
\* every row of the sample table is parsed; value holds the samples whose
\* files resolve, in table order, errors one SequenceFileError per sample
\* whose files do not resolve.  The call fails with SequenceFileError when
\* errors is not empty, and returns value as the sample list otherwise.
parse_sample_list(samples) ==
    LET rows == [i \in DOMAIN samples |-> i]
        value == SelectSeq(rows, LAMBDA i : samples[i])
        bad == SelectSeq(rows, LAMBDA i : ~samples[i])
        errors == [k \in DOMAIN bad |-> ParseError("SequenceFileError", bad[k])]
    IN  [raised |-> IF errors = <<>> THEN "none" ELSE "SequenceFileError",
         value |-> value, errors |-> errors]

\* lines 141-152: data directory and file list.  Parser has no attribute
\* get_full_data_directory: line 146 raises AttributeError.
sequencing_run_files(a, c) ==
    LET s == [c EXCEPT !.stage = "files"]
    IN  IF ~a.directory_given
        THEN [s EXCEPT !.raised = "AttributeError"]
        ELSE IF ~a.file_list_given /\ ~a.listing_ok
             THEN [add_error(s, ParseError("DirectoryError", 0))
                      EXCEPT !.raised = "ValidationError"]
             ELSE s

\* faulty variant: an invalid sheet does not stop the function
sequencing_run_sheet_no_raise(a, c) ==
    IF ~Parsing(c) THEN c
    ELSE LET r == validate_sample_sheet(a.sheet_errors)
         IN  [c EXCEPT !.stage = "sheet", !.validation_result = r,
                       !.recorded = @ \o r]

\* lines 154-158: validate the sample sheet
sequencing_run_sheet(a, c) ==
    IF ~Parsing(c) THEN c
    ELSE LET r == validate_sample_sheet(a.sheet_errors)
             s == [c EXCEPT !.stage = "sheet", !.validation_result = r,
                            !.recorded = @ \o r]
         IN  IF r # <<>>
             THEN [s EXCEPT !.raised = "ValidationError"]
             ELSE s

\* lines 160-167: parse the meta data
sequencing_run_metadata(a, c) ==
    IF ~Parsing(c) THEN c
    ELSE LET s == [c EXCEPT !.stage = "metadata", !.validation_result = <<>>]
         IN  IF ~a.metadata_ok
             THEN [add_error(s, ParseError("SampleSheetError", 0))
                      EXCEPT !.raised = "ValidationError"]
             ELSE s

\* lines 169-179: parse the samples and build the sequencing run.  The except
\* clause of line 173 binds the one SequenceFileError that was raised: only
\* that error is added, and sample_list is never assigned, so the samples
\* and the other errors of parse_sample_list are lost.
sequencing_run_samples(a, c) ==
    IF ~Parsing(c) THEN c
    ELSE LET s == [c EXCEPT !.stage = "samples"]
             p == parse_sample_list(a.samples)
         IN  IF p.raised = "SequenceFileError"
             THEN [add_error(s, ParseError("SequenceFileError", a.caught))
                      EXCEPT !.raised = "ValidationError"]
             ELSE IF ~a.build_ok
                  THEN [add_error(s, ParseError("SequenceFileError", 0))
                           EXCEPT !.raised = "ValidationError"]
                  ELSE [s EXCEPT !.returned = TRUE, !.run = p.value]

get_sequencing_run(a) ==
    sequencing_run_samples(a,
      sequencing_run_metadata(a,
        sequencing_run_sheet(a,
          sequencing_run_files(a, SequencingRunStart))))

----------------------------------------------------------------------------

(* State machine: invocations of the two entry points *)

Called(calls, op) == \E i \in DOMAIN calls : calls[i].op = op

Finish(entry, directory, c) ==
    /\ call' = [entry |-> entry, directory |-> directory,
                prior |-> IF directory = NoDirectory
                          THEN DIRECTORY_STATUS_NEW ELSE marker[directory]]
    /\ result' = [calls |-> c.calls, returned |-> c.returned, raised |-> c.raised]
    /\ marker' = IF directory = NoDirectory
                 THEN marker ELSE [marker EXCEPT ![directory] = c.marker]
    /\ uploads' = IF directory # NoDirectory /\ Called(c.calls, "upload_sequencing_run")
                  THEN [uploads EXCEPT ![directory] = @ + 1] ELSE uploads
    /\ invocations' = invocations + 1
    /\ UNCHANGED <<present, parsed>>

Init ==
    /\ marker = [d \in Directories |-> DIRECTORY_STATUS_NEW]
    /\ present \in [Directories -> SUBSET RequiredFiles]
    /\ call = [entry |-> "none", directory |-> NoDirectory,
               prior |-> DIRECTORY_STATUS_NEW]
    /\ result = [calls |-> <<>>, returned |-> <<>>, raised |-> "none"]
    /\ uploads = [d \in Directories |-> 0]
    /\ invocations = 0
    /\ parsed = [fn |-> "none", args |-> <<>>, out |-> <<>>]

SingleEntry ==
    /\ invocations < MaxInvocations
    /\ \E directory \in Directories, env \in EnvSet :
          Finish("validate_and_upload_single_entry", directory,
                 validate_and_upload_single_entry(directory, present[directory], env,
                     Enter(StartContext(DIRECTORY_STATUS_NEW), directory,
                           marker[directory])))

FirstNewRun ==
    /\ invocations < MaxInvocations
    /\ \E root_readable \in BOOLEAN, env \in EnvSet :
          LET c == upload_first_new_run(root_readable, env)
          IN  Finish("upload_first_new_run", c.directory, c)

Next == SingleEntry \/ FirstNewRun

Spec == Init /\ [][Next]_vars

\* os.access(directory, os.W_OK) for a directory of the given mode
os_access_W_OK(mode) == mode.w

\* the modes of a directory: whether it can be read (listed) and written
DirectoryModes == [r : BOOLEAN, w : BOOLEAN]

\* The parser's functions, each applied once to inputs drawn from the sets
\* above; the run directories are those of Init.
GetSampleSheet ==
    /\ parsed.fn = "none"
    /\ \E directory \in Directories, mode \in DirectoryModes :
          parsed' = [fn |-> "get_sample_sheet",
                     args |-> [directory |-> directory, mode |-> mode,
                               files |-> present[directory]],
                     out |-> get_sample_sheet(directory,
                                 get_file_list(present[directory], mode.r),
                                 os_access_W_OK(mode))]
    /\ UNCHANGED <<marker, present, call, result, uploads, invocations>>

GetSequencingRun ==
    /\ parsed.fn = "none"
    /\ \E a \in SequencingRunArgs :
          parsed' = [fn |-> "get_sequencing_run", args |-> a,
                     out |-> get_sequencing_run(a)]
    /\ UNCHANGED <<marker, present, call, result, uploads, invocations>>

ParserNext == GetSampleSheet \/ GetSequencingRun

ParserSpec == Init /\ [][ParserNext]_vars

\* the scheduled use: the root is only ever processed by upload_first_new_run
ScanSpec == Init /\ [][FirstNewRun]_vars

----------------------------------------------------------------------------
(* Reading the last invocation *)

Calls == result.calls

Dir == call.directory

\* the orchestrator validate_and_upload_single_entry ran in the last invocation
Orchestrated == call.entry # "none" /\ Dir # NoDirectory

Made(op) == Called(Calls, op)

Outcome(op, out) == \E i \in DOMAIN Calls : Calls[i].op = op /\ Calls[i].out = out

Wrote(status, out) ==
    \E i \in DOMAIN Calls :
        /\ Calls[i].op = "write_directory_status"
        /\ Calls[i].arg = status
        /\ Calls[i].out = out

WriteAttempted(status) == Wrote(status, "ok") \/ Wrote(status, "DirectoryError")

ReturnedCode(code) == result.raised = "none" /\ result.returned = <<code>>

----------------------------------------------------------------------------
(* Claims *)

\* every stage that ran succeeded, the upload included
AllStagesSucceeded ==
    /\ Orchestrated
    /\ Wrote(DIRECTORY_STATUS_PARTIAL, "ok")
    /\ Outcome("parse_and_validate", "ok")
    /\ Outcome("initialize_api_from_config", "ok")
    /\ Outcome("prepare_and_validate_for_upload", "valid")
    /\ Outcome("upload_sequencing_run", "ok")
    /\ ~Wrote(DIRECTORY_STATUS_COMPLETE, "DirectoryError")

\* C1: when every stage of validate_and_upload_single_entry succeeds (PARTIAL
\* write, offline parse, connect, online validation valid, upload, COMPLETE
\* write), the directory's marker ends COMPLETE and the function returns 0.
C1_AllSucceedComplete ==
    AllStagesSucceeded =>
        /\ Wrote(DIRECTORY_STATUS_COMPLETE, "ok")
        /\ Calls[Len(Calls)].arg = DIRECTORY_STATUS_COMPLETE
        /\ marker[Dir] = DIRECTORY_STATUS_COMPLETE
        /\ ReturnedCode(0)

C1_Witness ==
    /\ AllStagesSucceeded
    /\ Wrote(DIRECTORY_STATUS_COMPLETE, "ok")
    /\ call.entry = "validate_and_upload_single_entry"
    /\ call.prior = DIRECTORY_STATUS_NEW

UploadFailed == Orchestrated /\ Outcome("upload_sequencing_run", "IridaConnectionError")

\* C2: when the upload fails with a connection error the function returns 1
\* and writes no further status marker: the upload is the last call made, and
\* the marker stays PARTIAL, neither ERROR nor COMPLETE.
C2_UploadFailureKeepsPartial ==
    UploadFailed =>
        /\ ReturnedCode(1)
        /\ Calls[Len(Calls)].op = "upload_sequencing_run"
        /\ ~WriteAttempted(DIRECTORY_STATUS_ERROR)
        /\ ~WriteAttempted(DIRECTORY_STATUS_COMPLETE)
        /\ marker[Dir] = DIRECTORY_STATUS_PARTIAL

C2_Witness ==
    /\ UploadFailed
    /\ Wrote(DIRECTORY_STATUS_PARTIAL, "ok")
    /\ Outcome("prepare_and_validate_for_upload", "valid")

ConnectFailed ==
    /\ Orchestrated
    /\ Wrote(DIRECTORY_STATUS_PARTIAL, "ok")
    /\ Outcome("parse_and_validate", "ok")
    /\ Outcome("initialize_api_from_config", "IridaConnectionError")

\* C3 as stated: when connecting fails (after a successful PARTIAL write and
\* parse) the function does not end in success and the status is not
\* rewritten: the marker is still PARTIAL, not ERROR.
C3_ConnectFailureKeepsPartial ==
    ConnectFailed =>
        /\ ~ReturnedCode(0)
        /\ marker[Dir] = DIRECTORY_STATUS_PARTIAL
        /\ marker[Dir] # DIRECTORY_STATUS_ERROR

\* C3 amended: when connecting fails the function never returns 0 and makes
\* no online validation or upload call, and it does rewrite the status: it
\* attempts the ERROR write, and when that write succeeds the marker is ERROR
\* and the exit code is 1.
C3_ConnectFailureWritesError ==
    ConnectFailed =>
        /\ ~ReturnedCode(0)
        /\ ~Made("prepare_and_validate_for_upload")
        /\ ~Made("upload_sequencing_run")
        /\ WriteAttempted(DIRECTORY_STATUS_ERROR)
        /\ (Wrote(DIRECTORY_STATUS_ERROR, "ok") =>
               (marker[Dir] = DIRECTORY_STATUS_ERROR /\ ReturnedCode(1)))

C3_Witness ==
    /\ ConnectFailed
    /\ Wrote(DIRECTORY_STATUS_ERROR, "ok")
    /\ marker[Dir] = DIRECTORY_STATUS_ERROR

OnlineConnectionLost ==
    /\ Orchestrated
    /\ Outcome("initialize_api_from_config", "ok")
    /\ Outcome("prepare_and_validate_for_upload", "IridaConnectionError")

\* C4 as stated: when the online validation call raises a connection error
\* the function does not end in success, the status is not rewritten (the
\* marker is still PARTIAL, not ERROR), and upload is never invoked.
C4_OnlineLostKeepsPartial ==
    OnlineConnectionLost =>
        /\ ~ReturnedCode(0)
        /\ marker[Dir] = DIRECTORY_STATUS_PARTIAL
        /\ marker[Dir] # DIRECTORY_STATUS_ERROR
        /\ ~Made("upload_sequencing_run")

\* C4 amended: when the online validation call raises a connection error the
\* function never returns 0 and never invokes upload, and it does rewrite the
\* status: it attempts the ERROR write, and when that write succeeds the
\* marker is ERROR and the exit code is 1.
C4_OnlineLostWritesError ==
    OnlineConnectionLost =>
        /\ ~ReturnedCode(0)
        /\ ~Made("upload_sequencing_run")
        /\ WriteAttempted(DIRECTORY_STATUS_ERROR)
        /\ (Wrote(DIRECTORY_STATUS_ERROR, "ok") =>
               (marker[Dir] = DIRECTORY_STATUS_ERROR /\ ReturnedCode(1)))

C4_Witness ==
    /\ OnlineConnectionLost
    /\ Wrote(DIRECTORY_STATUS_ERROR, "ok")
    /\ marker[Dir] = DIRECTORY_STATUS_ERROR

OnlineInvalid == Orchestrated /\ Outcome("prepare_and_validate_for_upload", "invalid")

\* C5: when online validation returns a result that is not valid, the
\* function writes the ERROR marker, returns 1 and never invokes upload.
C5_OnlineInvalidErrorExit ==
    OnlineInvalid =>
        /\ WriteAttempted(DIRECTORY_STATUS_ERROR)
        /\ ReturnedCode(1)
        /\ ~Made("upload_sequencing_run")

ParseFailed ==
    /\ Orchestrated
    /\ \/ Outcome("parse_and_validate", "DirectoryError")
       \/ Outcome("parse_and_validate", "ValidationError")

\* C6: when offline parsing raises DirectoryError or ValidationError, the
\* function writes the ERROR marker, returns 1, and neither connects, nor
\* validates online, nor uploads.
C6_ParseFailureErrorExit ==
    ParseFailed =>
        /\ WriteAttempted(DIRECTORY_STATUS_ERROR)
        /\ ReturnedCode(1)
        /\ ~Made("initialize_api_from_config")
        /\ ~Made("prepare_and_validate_for_upload")
        /\ ~Made("upload_sequencing_run")

PartialWriteFailed == Orchestrated /\ Wrote(DIRECTORY_STATUS_PARTIAL, "DirectoryError")

\* C7: when the initial PARTIAL write fails with DirectoryError the function
\* returns 1, no later stage runs and no status is written: the directory
\* keeps its prior status.
C7_PartialWriteFailureExit ==
    PartialWriteFailed =>
        /\ ReturnedCode(1)
        /\ ~Made("parse_and_validate")
        /\ ~Made("initialize_api_from_config")
        /\ ~Made("prepare_and_validate_for_upload")
        /\ ~Made("upload_sequencing_run")
        /\ ~WriteAttempted(DIRECTORY_STATUS_ERROR)
        /\ ~WriteAttempted(DIRECTORY_STATUS_COMPLETE)
        /\ marker[Dir] = call.prior

CompleteWriteFailed ==
    /\ Orchestrated
    /\ Outcome("upload_sequencing_run", "ok")
    /\ Wrote(DIRECTORY_STATUS_COMPLETE, "DirectoryError")

\* C8: when the upload succeeds but the final COMPLETE write fails with
\* DirectoryError the function still returns 0, the marker left at PARTIAL.
C8_CompleteWriteFailureSuccess ==
    CompleteWriteFailed =>
        /\ ReturnedCode(0)
        /\ marker[Dir] = DIRECTORY_STATUS_PARTIAL

DomainError ==
    /\ call.entry # "none"
    /\ \E i \in DOMAIN Calls :
           Calls[i].out \in {"DirectoryError", "ValidationError", "IridaConnectionError"}

\* C9: on every domain error (DirectoryError, ValidationError,
\* IridaConnectionError) both entry points end by returning exit code 0 or 1;
\* no exception leaves them.
C9_DomainErrorsReturnExitCode ==
    DomainError => ReturnedCode(0) \/ ReturnedCode(1)

\* C10: an invocation of the orchestrator on a directory whose marker is
\* already COMPLETE never invokes the upload operation.
C10_CompleteNotUploadedAgain ==
    (Orchestrated /\ call.prior = DIRECTORY_STATUS_COMPLETE) =>
        ~Made("upload_sequencing_run")

\* the last invocation wrote the PARTIAL marker and returned an exit code
AttemptReturned ==
    /\ Orchestrated
    /\ Wrote(DIRECTORY_STATUS_PARTIAL, "ok")
    /\ result.raised = "none"
    /\ result.returned # <<>>

\* C11 as stated: every attempt whose PARTIAL marker was written has, when the
\* function returns, moved the marker to a terminal state, COMPLETE or ERROR:
\* it is not PARTIAL any more, and it was not removed.
C11_AttemptEndsTerminal ==
    AttemptReturned =>
        marker[Dir] \in {DIRECTORY_STATUS_COMPLETE, DIRECTORY_STATUS_ERROR}

\* C11 amended: when the function returns after writing PARTIAL, the marker is
\* never removed and is COMPLETE, ERROR or still PARTIAL: COMPLETE exactly when
\* the exit code is 0, still PARTIAL exactly when the upload failed with a
\* connection error (exit code 1), and ERROR otherwise (exit code 1).
C11_AttemptEndsTerminalOrPartial ==
    AttemptReturned =>
        /\ marker[Dir] \in {DIRECTORY_STATUS_COMPLETE, DIRECTORY_STATUS_ERROR,
                            DIRECTORY_STATUS_PARTIAL}
        /\ marker[Dir] = DIRECTORY_STATUS_COMPLETE <=> ReturnedCode(0)
        /\ marker[Dir] = DIRECTORY_STATUS_PARTIAL <=>
               Outcome("upload_sequencing_run", "IridaConnectionError")
        /\ marker[Dir] # DIRECTORY_STATUS_COMPLETE => ReturnedCode(1)

C11_Witness ==
    /\ AttemptReturned
    /\ Outcome("upload_sequencing_run", "IridaConnectionError")
    /\ marker[Dir] = DIRECTORY_STATUS_PARTIAL
    /\ ReturnedCode(1)

\* the stage calls of the last invocation, in the order they were made: every
\* collaborator call but the scan for the first new run and the ERROR write
\* of exit_error
IsStageCall(k) ==
    /\ k.op # "get_first_new_run"
    /\ ~(k.op = "write_directory_status" /\ k.arg = DIRECTORY_STATUS_ERROR)

StageCalls == SelectSeq(Calls, IsStageCall)

\* a stage call's label: the status for a status write, else the operation
StageLabel(k) == IF k.op = "write_directory_status" THEN k.arg ELSE k.op

\* the order of the stages, with the outcome that lets the next stage run
StageOrder ==
    << <<DIRECTORY_STATUS_PARTIAL, "ok">>,
       <<"parse_and_validate", "ok">>,
       <<"initialize_api_from_config", "ok">>,
       <<"prepare_and_validate_for_upload", "valid">>,
       <<"upload_sequencing_run", "ok">>,
       <<DIRECTORY_STATUS_COMPLETE, "ok">> >>

\* C12: the stages run in the fixed order PARTIAL write, parse, connect, online
\* validation, upload, COMPLETE write, each at most once, and a stage runs only
\* if every earlier stage succeeded: the stage calls are a prefix of that
\* order in which every call but the last succeeded.
C12_StagesLinear ==
    Orchestrated =>
        /\ Len(StageCalls) \in 1..Len(StageOrder)
        /\ \A i \in DOMAIN StageCalls :
               /\ StageLabel(StageCalls[i]) = StageOrder[i][1]
               /\ i < Len(StageCalls) => StageCalls[i].out = StageOrder[i][2]
        /\ Made("upload_sequencing_run") =>
               Outcome("prepare_and_validate_for_upload", "valid")
        /\ WriteAttempted(DIRECTORY_STATUS_COMPLETE) =>
               Outcome("upload_sequencing_run", "ok")

C12_Witness ==
    /\ Orchestrated
    /\ Len(StageCalls) = Len(StageOrder)
    /\ Wrote(DIRECTORY_STATUS_COMPLETE, "ok")

LacksRequiredFile(d) == \E f \in RequiredFiles : f \notin present[d]

\* C13: every run directory lacking a required file (SampleSheet.csv or
\* RTAComplete.txt) is classified INVALID by the scanner and is never
\* attempted by the orchestrator: no status marker is written into it and
\* upload is never invoked for it.
C13_InvalidNeverAttempted ==
    \A d \in Directories :
        LacksRequiredFile(d) =>
            /\ get_directory_status(d, get_required_file_list).status
                   = DIRECTORY_STATUS_INVALID
            /\ marker[d] = DIRECTORY_STATUS_NEW
            /\ uploads[d] = 0
            /\ (Orchestrated /\ Dir = d) =>
                   (~Wrote(DIRECTORY_STATUS_PARTIAL, "ok")
                    /\ ~Made("upload_sequencing_run"))

\* the positions, in scan order, of the run directories that are NEW and hold
\* every required file
NewRuns ==
    {i \in DOMAIN RunDirectories :
        /\ marker[RunDirectories[i]] = DIRECTORY_STATUS_NEW
        /\ RequiredFiles \subseteq present[RunDirectories[i]]}

\* a step that is an invocation of upload_first_new_run whose scan of the
\* root did not fail
ScanStep ==
    /\ invocations' = invocations + 1
    /\ call'.entry = "upload_first_new_run"
    /\ result'.calls[1].out # "DirectoryError"

\* C14: when the root holds no directory that is NEW with all required files,
\* upload_first_new_run raises nothing, returns 0, writes no status marker and
\* invokes no stage; otherwise it runs the orchestrator on the first such
\* directory.
C14_FirstNewRunOrNone ==
    [][ScanStep =>
          IF NewRuns = {}
          THEN /\ result'.raised = "none"
               /\ result'.returned = <<0>>
               /\ Len(result'.calls) = 1
               /\ call'.directory = NoDirectory
               /\ marker' = marker
               /\ uploads' = uploads
          ELSE /\ \E i \in NewRuns :
                     /\ \A j \in NewRuns : i <= j
                     /\ call'.directory = RunDirectories[i]
               /\ Len(result'.calls) >= 2
               /\ result'.calls[2].op = "write_directory_status"
               /\ result'.calls[2].arg = DIRECTORY_STATUS_PARTIAL
               /\ \A d \in Directories :
                      d # call'.directory =>
                          marker'[d] = marker[d] /\ uploads'[d] = uploads[d]
       ]_vars

C14_Witness ==
    /\ call.entry = "upload_first_new_run"
    /\ Outcome("get_first_new_run", NoDirectory)
    /\ Len(Calls) = 1
    /\ ReturnedCode(0)

\* the positions in the last invocation's calls of the status writes that
\* succeeded
SuccessfulWrites ==
    {i \in DOMAIN Calls :
        Calls[i].op = "write_directory_status" /\ Calls[i].out = "ok"}

\* C19: within one invocation the successful status writes are PARTIAL followed
\* by at most one of ERROR or COMPLETE: the first successful write is PARTIAL,
\* there are at most two, ERROR and COMPLETE are never both written, and ERROR
\* is never written once the upload operation has been invoked.
C19_WriteSequence ==
    Orchestrated =>
        /\ Cardinality(SuccessfulWrites) <= 2
        /\ \A i \in SuccessfulWrites :
               (\A j \in SuccessfulWrites : i <= j) <=>
                   Calls[i].arg = DIRECTORY_STATUS_PARTIAL
        /\ ~(Wrote(DIRECTORY_STATUS_ERROR, "ok")
             /\ Wrote(DIRECTORY_STATUS_COMPLETE, "ok"))
        /\ (Wrote(DIRECTORY_STATUS_ERROR, "ok") \/ Wrote(DIRECTORY_STATUS_COMPLETE, "ok"))
               => Wrote(DIRECTORY_STATUS_PARTIAL, "ok")
        /\ Made("upload_sequencing_run") => ~WriteAttempted(DIRECTORY_STATUS_ERROR)

C19_Witness ==
    /\ Orchestrated
    /\ Wrote(DIRECTORY_STATUS_PARTIAL, "ok")
    /\ Wrote(DIRECTORY_STATUS_ERROR, "ok")
    /\ Cardinality(SuccessfulWrites) = 2

\* C20: across any sequence of invocations of upload_first_new_run over one
\* root, each invocation processes at most one run directory, the directory it
\* selects is NEW (no attempt ever wrote a marker into it), a directory whose
\* marker was written is left untouched whatever the marker is, and so the
\* upload operation is invoked at most once per run directory.
C20_ScanNeverReselects ==
    [][(invocations' = invocations + 1) =>
          /\ Cardinality({d \in Directories :
                 marker'[d] # marker[d] \/ uploads'[d] # uploads[d]}) <= 1
          /\ call'.directory # NoDirectory =>
                 marker[call'.directory] = DIRECTORY_STATUS_NEW
          /\ \A d \in Directories :
                 /\ marker[d] # DIRECTORY_STATUS_NEW =>
                        (marker'[d] = marker[d] /\ uploads'[d] = uploads[d])
                 /\ uploads[d] > 0 => marker[d] # DIRECTORY_STATUS_NEW
                 /\ uploads'[d] <= 1
       ]_vars

\* a second scan after the first attempt left its directory PARTIAL, ERROR or
\* COMPLETE
C20_Witness ==
    /\ invocations = 2
    /\ call.entry = "upload_first_new_run"
    /\ \E d \in Directories :
           /\ marker[d] # DIRECTORY_STATUS_NEW
           /\ uploads[d] = 1
           /\ Dir # d

----------------------------------------------------------------------------
(* Claims about the parser *)

SequencingRunCalled == parsed.fn = "get_sequencing_run"

\* get_sequencing_run reached the parsing of the samples and the files of
\* some sample could not be resolved
SampleErrorCase ==
    /\ SequencingRunCalled
    /\ parsed.out.stage = "samples"
    /\ parse_sample_list(parsed.args.samples).errors # <<>>

\* C15: a SequenceFileError for one sample does not abort the parsing of the
\* remaining samples: the parser still returns every resolvable sample, with
\* a ValidationResult that carries every accumulated error, one per
\* unresolvable sample.
C15_SampleErrorsAccumulate ==
    SampleErrorCase =>
        /\ parsed.out.run = parse_sample_list(parsed.args.samples).value
        /\ parsed.out.validation_result
               = parse_sample_list(parsed.args.samples).errors

SampleSheetCalled == parsed.fn = "get_sample_sheet"

SheetPresent == SAMPLE_SHEET_FILE_NAME \in parsed.args.files

\* C16 as stated: get_sample_sheet fails with DirectoryError exactly when the
\* directory is unreadable or SampleSheet.csv is absent; for a readable
\* directory that holds SampleSheet.csv it returns the path of that file
\* inside the directory.
C16_SheetOfReadableDirectory ==
    SampleSheetCalled =>
        /\ parsed.out.raised = "DirectoryError"
               <=> (~parsed.args.mode.r \/ ~SheetPresent)
        /\ (parsed.args.mode.r /\ SheetPresent) =>
               parsed.out.value
                   = <<parsed.args.directory, SAMPLE_SHEET_FILE_NAME>>

\* C16 amended: get_sample_sheet fails with DirectoryError exactly when the
\* directory is unreadable, is not writable (os.access(directory, os.W_OK) is
\* false) or holds no SampleSheet.csv; for a directory that is readable and
\* writable and holds SampleSheet.csv it returns the path of that file inside
\* the directory.
C16_SheetOfAccessibleDirectory ==
    SampleSheetCalled =>
        /\ parsed.out.raised \in {"none", "DirectoryError"}
        /\ parsed.out.raised = "DirectoryError"
               <=> (~parsed.args.mode.r \/ ~parsed.args.mode.w \/ ~SheetPresent)
        /\ (parsed.args.mode.r /\ parsed.args.mode.w /\ SheetPresent) =>
               parsed.out.value
                   = <<parsed.args.directory, SAMPLE_SHEET_FILE_NAME>>

C16_Witness ==
    /\ SampleSheetCalled
    /\ parsed.args.mode.r
    /\ ~parsed.args.mode.w
    /\ SheetPresent
    /\ parsed.out.raised = "DirectoryError"

\* C17: get_sequencing_run called with the sample sheet only (no
\* run_data_directory, no run_data_directory_file_list) resolves them itself
\* and either returns a SequencingRun or raises ValidationError with a
\* validation result; no other exception escapes.
C17_SheetOnlyOutcomes ==
    (/\ SequencingRunCalled
     /\ ~parsed.args.directory_given
     /\ ~parsed.args.file_list_given) =>
        \/ parsed.out.returned /\ parsed.out.raised = "none"
        \/ parsed.out.raised = "ValidationError"

\* C18: in get_sequencing_run no error recorded in a ValidationResult is
\* dropped by a later stage: a ValidationError carries a result that is not
\* valid and holds every error recorded up to then, and a sequencing run is
\* returned only when no error was recorded.
C18_NoErrorDropped ==
    SequencingRunCalled =>
        /\ parsed.out.raised = "ValidationError" =>
               /\ parsed.out.validation_result # <<>>
               /\ parsed.out.validation_result = parsed.out.recorded
        /\ parsed.out.raised # "ValidationError" => parsed.out.recorded = <<>>

C18_Witness ==
    /\ SequencingRunCalled
    /\ parsed.out.stage = "sheet"
    /\ parsed.out.raised = "ValidationError"
    /\ Len(parsed.out.validation_result) = MaxSheetErrors

====
